---- MODULE Spec2Model ----
(***************************************************************************)
(* Model of the hash-prefix pre-filter pipeline of the Safe Browsing DNSBL *)
(* generator: the URL stores and the prefix store of modules/db_utils.py   *)
(* and the Lookup-API and Update-API clients of modules/safebrowsing.py.   *)
(*                                                                         *)
(* Every store is one SQLite file.  A table is modelled as the set of its  *)
(* rows: rows of the ipv4 table carry their rowid, rows of a feed table    *)
(* are told apart by their UNIQUE url.  SQL NULL is the value NULL;        *)
(* timestamps are positive integers.  Where Python or SQL leaves an order  *)
(* open (the iteration of a set, a SELECT without ORDER BY over rows kept  *)
(* without their order of insertion), every order is an outcome.           *)
(***************************************************************************)
EXTENDS Integers, Sequences, FiniteSets, Bags, TLC

VARIABLES
    db,                     \* filename -> rows of that file's urls table
    focus,                  \* the store file written in this behaviour
    maliciousHashPrefixes,  \* committed rows of malicious.db
    txn,                    \* vendor -> the write transaction of add_maliciousHashPrefixes
    lookup,                 \* the running get_malicious_urls call
    update,                 \* the running get_malicious_url_hash_prefixes call
    call,                   \* the running store operation, statement by statement
    last                    \* the last call: its name, what it was given or read, what it returned

vars == <<db, focus, maliciousHashPrefixes, txn, lookup, update, call, last>>

----------------------------------------------------------------------------
(* Bounds and universes *)

\* Update times are drawn from 1..MaxTime.
MaxTime == 2
\* add_URLs receives at most MaxBatches batches from its fetcher.
MaxBatches == 2
\* The IPv4 address space [0, 2^32) scaled down to [0, ips_to_generate).
ips_to_generate == 2

\* A vendor's threat list holds at most MaxPrefixes hash prefixes.
MaxPrefixes == 2

\* The suspect sets given to get_malicious_urls have every size at the
\* edge of a batch up to MaxLookupBatches full batches.
MaxLookupBatches == 2

Times == 1..MaxTime
Vendors == {"Google", "Yandex"}
FeedFilenames == {"top10m_urls"}
Filenames == FeedFilenames \cup {"ipv4"}
\* Hostname expressions a feed can yield.
URLs == {"example.com", "malware.test"}

NULL == -1
NoCall == [op |-> "none"]

----------------------------------------------------------------------------
(* Helpers standing for Python and SQL built-ins *)

Max2(a, b) == IF a >= b THEN a ELSE b

RECURSIVE SetMax(_)
\* SQL MAX over a column: NULLs are ignored, no value at all gives NULL.
SetMax(S) ==
    IF S \ {NULL} = {} THEN NULL
    ELSE LET x == CHOOSE y \in S \ {NULL} : TRUE
         IN Max2(x, SetMax(S \ {x}))

\* SQL '=': never true when an operand is NULL.
SqlEqNullEqual(a, b) == a = b
SqlEq(a, b) == a # NULL /\ b # NULL /\ a = b

RECURSIVE Orderings(_)
\* The lists that hold the elements of S once each.  Python leaves the
\* iteration order of a set open and SQL the order of a SELECT without
\* ORDER BY, so each of these lists is an outcome of list(S) and of such a
\* query.
Orderings(S) ==
    IF S = {} THEN {<<>>}
    ELSE UNION {{<<x>> \o s : s \in Orderings(S \ {x})} : x \in S}

RECURSIVE Pick(_, _, _)
\* The elements of s at the positions I from position k on, in the order of s.
Pick(s, I, k) ==
    IF k > Len(s) THEN <<>>
    ELSE (IF k \in I THEN <<s[k]>> ELSE <<>>) \o Pick(s, I, k + 1)
\* The lists made of some of the elements of s, in the order of s.
SubLists(s) == {Pick(s, I, 1) : I \in SUBSET (1..Len(s))}

Range(s) == {s[i] : i \in 1..Len(s)}

Min2(a, b) == IF a <= b THEN a ELSE b

chunked_first_only(s, n) ==
    IF s = <<>> THEN <<>> ELSE <<SubSeq(s, 1, Min2(n, Len(s)))>>
\* more_itertools.chunked(iterable, n): consecutive slices of length n,
\* the last one shorter; nothing for an empty iterable.
chunked(s, n) ==
    [k \in 1..((Len(s) + n - 1) \div n) |->
        SubSeq(s, (k - 1) * n + 1, Min2(k * n, Len(s)))]

\* hashlib.sha256(data).digest() on the byte strings the model hashes.
sha256(data) ==
    CASE data = "example.com/" ->
        <<115, 217, 134, 224, 9, 6, 95, 24, 44, 16, 188, 182, 164, 93, 179, 214,
          237, 169, 73, 143, 137, 48, 101, 74, 242, 101, 63, 138, 147, 140, 216, 1>>
      [] data = "malware.test/" ->
        <<18, 139, 251, 242, 226, 128, 74, 182, 229, 60, 74, 138, 50, 190, 177, 69,
          85, 58, 113, 133, 92, 189, 86, 27, 148, 221, 15, 35, 149, 231, 163, 191>>
      [] data = "0.0.0.0/" ->
        <<158, 69, 172, 181, 69, 236, 173, 74, 127, 185, 87, 109, 152, 121, 21, 249,
          155, 15, 198, 70, 20, 146, 171, 18, 62, 118, 77, 160, 191, 166, 252, 133>>
      [] data = "0.0.0.1/" ->
        <<33, 2, 203, 71, 29, 224, 79, 193, 220, 163, 157, 235, 112, 57, 7, 26,
          219, 95, 95, 98, 253, 234, 154, 246, 140, 217, 144, 199, 92, 14, 62, 127>>
      [] data = "0.0.0.2/" ->
        <<248, 51, 182, 56, 42, 22, 247, 253, 124, 199, 187, 244, 69, 28, 100, 113,
          209, 111, 231, 9, 97, 128, 228, 142, 181, 5, 7, 58, 120, 174, 162, 185>>
      [] data = "0.0.0.3/" ->
        <<183, 24, 101, 83, 69, 188, 93, 211, 200, 229, 157, 39, 217, 229, 194, 37,
          114, 235, 160, 241, 200, 81, 14, 127, 33, 59, 220, 242, 2, 125, 188, 6>>
      [] data = "0.0.0.4/" ->
        <<92, 188, 248, 189, 16, 41, 80, 7, 173, 76, 19, 48, 56, 81, 45, 128,
          160, 228, 148, 248, 198, 197, 248, 75, 108, 112, 227, 63, 11, 227, 108, 78>>
      [] data = "0.0.0.5/" ->
        <<185, 30, 201, 147, 170, 175, 60, 57, 185, 217, 118, 46, 254, 253, 148, 148,
          46, 187, 228, 112, 62, 39, 95, 155, 97, 238, 39, 64, 239, 152, 55, 116>>
      [] data = "1.0.0.0/" ->
        <<105, 130, 219, 208, 27, 138, 158, 189, 234, 166, 60, 55, 140, 172, 84, 160,
          110, 178, 205, 3, 16, 173, 37, 86, 253, 180, 89, 32, 122, 179, 98, 23>>
      [] data = "2.0.0.0/" ->
        <<146, 168, 6, 4, 12, 119, 110, 232, 209, 20, 219, 240, 192, 163, 20, 28,
          237, 39, 80, 19, 25, 137, 244, 26, 150, 53, 125, 99, 21, 225, 99, 87>>
      [] data = "3.0.0.0/" ->
        <<255, 230, 32, 228, 154, 204, 198, 252, 78, 18, 109, 72, 176, 202, 49, 75,
          85, 222, 184, 230, 74, 181, 131, 146, 202, 2, 31, 209, 45, 2, 162, 215>>
      [] data = "4.0.0.0/" ->
        <<12, 166, 243, 180, 48, 228, 134, 54, 71, 13, 74, 25, 148, 13, 163, 209,
          184, 89, 193, 101, 227, 126, 73, 122, 65, 116, 239, 76, 99, 74, 82, 230>>
      [] data = "5.0.0.0/" ->
        <<104, 76, 91, 106, 85, 222, 104, 38, 20, 65, 32, 202, 118, 255, 207, 237,
          42, 103, 64, 100, 206, 117, 37, 155, 54, 14, 75, 76, 252, 7, 173, 60>>
      [] data = "example.com" ->
        <<163, 121, 166, 246, 238, 175, 185, 165, 94, 55, 140, 17, 128, 52, 226, 117,
          30, 104, 47, 171, 159, 45, 48, 171, 19, 210, 18, 85, 134, 206, 25, 71>>
      [] data = "malware.test" ->
        <<162, 140, 78, 235, 118, 184, 76, 1, 115, 195, 143, 174, 47, 166, 97, 182,
          203, 60, 246, 241, 65, 50, 140, 36, 192, 51, 179, 224, 204, 108, 123, 249>>
      [] data = "0.0.0.0" ->
        <<25, 227, 98, 85, 151, 33, 7, 212, 43, 140, 236, 183, 126, 245, 98, 46,
          132, 46, 138, 80, 119, 138, 110, 216, 221, 28, 233, 71, 50, 218, 202, 158>>
      [] data = "0.0.0.1" ->
        <<155, 112, 46, 197, 242, 124, 43, 222, 220, 50, 182, 142, 193, 33, 84, 247,
          141, 18, 66, 36, 45, 56, 69, 112, 197, 21, 172, 101, 39, 179, 96, 133>>
      [] data = "0.0.0.2" ->
        <<2, 148, 206, 8, 155, 37, 184, 12, 144, 174, 126, 200, 7, 128, 0, 200,
          7, 177, 140, 217, 233, 92, 172, 157, 15, 134, 217, 254, 176, 224, 139, 7>>
      [] data = "0.0.0.3" ->
        <<51, 94, 126, 172, 67, 72, 148, 65, 127, 202, 154, 46, 254, 84, 201, 144,
          41, 195, 94, 131, 46, 47, 183, 217, 165, 45, 251, 30, 46, 34, 70, 82>>
      [] data = "0.0.0.4" ->
        <<141, 81, 9, 215, 127, 215, 218, 163, 34, 108, 229, 236, 47, 61, 121, 24,
          32, 139, 178, 188, 165, 67, 15, 37, 76, 7, 157, 59, 225, 91, 69, 250>>
      [] data = "0.0.0.5" ->
        <<95, 108, 216, 100, 27, 225, 221, 100, 122, 141, 128, 64, 218, 97, 140, 243,
          207, 124, 25, 51, 135, 72, 211, 178, 232, 36, 181, 156, 191, 96, 177, 73>>

----------------------------------------------------------------------------
(* db_utils.py: hashing *)

compute_url_hash_no_slash(url) == sha256(url)
\* sha256(f"{url}/".encode()).digest()
compute_url_hash(url) == sha256(url \o "/")

Octet(int_addr, k) == (int_addr \div (256 ^ k)) % 256

inet_ntoa_little_endian(int_addr) ==
    ToString(Octet(int_addr, 0)) \o "." \o ToString(Octet(int_addr, 1)) \o "."
        \o ToString(Octet(int_addr, 2)) \o "." \o ToString(Octet(int_addr, 3))
\* socket.inet_ntoa(struct.pack("!I", int_addr)): network byte order, the
\* most significant octet first.
inet_ntoa(int_addr) ==
    ToString(Octet(int_addr, 3)) \o "." \o ToString(Octet(int_addr, 2)) \o "."
        \o ToString(Octet(int_addr, 1)) \o "." \o ToString(Octet(int_addr, 0))

int_addr_to_ip_and_hash(int_addr) ==
    LET ip == inet_ntoa(int_addr)
    IN <<ip, compute_url_hash(ip)>>

----------------------------------------------------------------------------
(* db_utils.py: the urls tables *)

\* SELECT MAX(_rowid_) FROM urls
MaxRowid(T) == SetMax({r.rowid : r \in T})
\* The rowid SQLite gives a row inserted without one.
NextRowid(T) == IF T = {} THEN 1 ELSE MaxRowid(T) + 1

\* A row of a feed store as INSERT INTO urls (url, lastListed, hash) makes it.
\* The column url is UNIQUE there, so no two rows are equal and the rowid is
\* left out.
FeedRow(url, lastListed, hash) ==
    [url |-> url, lastListed |-> lastListed,
     lastGoogleMalicious |-> NULL, lastYandexMalicious |-> NULL, hash |-> hash]

\* A row of the ipv4 store as INSERT INTO urls (url, hash) makes it.
IPRow(rowid, url, hash) ==
    [rowid |-> rowid, url |-> url,
     lastGoogleMalicious |-> NULL, lastYandexMalicious |-> NULL, hash |-> hash]

UpsertRowReplace(T, url, lastListed, hash) ==
    {r \in T : r.url # url} \cup {FeedRow(url, lastListed, hash)}
UpsertRowKeepListed(T, url, lastListed, hash) ==
    IF \E r \in T : r.url = url THEN T
    ELSE T \cup {FeedRow(url, lastListed, hash)}
\* INSERT INTO urls (url, lastListed, hash) VALUES (?,?,?)
\* ON CONFLICT(url) DO UPDATE SET lastListed=excluded.lastListed
UpsertRow(T, url, lastListed, hash) ==
    IF \E r \in T : r.url = url
    THEN {IF r.url = url THEN [r EXCEPT !.lastListed = lastListed] ELSE r : r \in T}
    ELSE T \cup {FeedRow(url, lastListed, hash)}

RECURSIVE ExecuteManyUpsert(_, _, _)
\* cur.executemany over one batch, a set of urls: one upsert for each url.
\* The upserts of different urls write different rows of a table that keeps
\* no insertion order here, so the order in which the set is iterated does
\* not show in the result.
ExecuteManyUpsert(T, url_batch, lastListed) ==
    IF url_batch = {} THEN T
    ELSE LET url == CHOOSE u \in url_batch : TRUE
         IN ExecuteManyUpsert(
                UpsertRow(T, url, lastListed, compute_url_hash(url)),
                url_batch \ {url}, lastListed)

RECURSIVE UpsertBatches(_, _, _)
\* for url_batch in urls: cur.executemany(...)
UpsertBatches(T, urls, lastListed) ==
    IF urls = <<>> THEN T
    ELSE UpsertBatches(ExecuteManyUpsert(T, Head(urls), lastListed), Tail(urls), lastListed)

RECURSIVE InsertIPs(_, _, _)
\* for int_addr in range(from, to): INSERT INTO urls (url,hash) VALUES (?,?)
InsertIPs(T, from, to) ==
    IF from >= to THEN T
    ELSE LET ip_and_hash == int_addr_to_ip_and_hash(from)
         IN InsertIPs(T \cup {IPRow(NextRowid(T), ip_and_hash[1], ip_and_hash[2])},
                      from + 1, to)

\* The table a completed add_IPs leaves: DELETE FROM urls, then the insert
\* loop over range(ips_to_generate).
RegenerateIPs(T) == InsertIPs({}, 0, ips_to_generate)

vendorToColumn(vendor) ==
    IF vendor = "Google" THEN "lastGoogleMalicious" ELSE "lastYandexMalicious"

\* UPDATE urls SET {column} = ? WHERE url IN (?, ..., ?)
UpdateWhereUrlIn(T, column, updateTime, malicious_url_batch) ==
    {IF r.url \in Range(malicious_url_batch)
        THEN [r EXCEPT ![column] = updateTime] ELSE r : r \in T}

batch_size == 30000

RECURSIVE UpdateBatches(_, _, _, _)
\* for malicious_url_batch in malicious_url_batches: UPDATE ...
UpdateBatches(T, column, updateTime, malicious_url_batches) ==
    IF malicious_url_batches = <<>> THEN T
    ELSE UpdateBatches(
             UpdateWhereUrlIn(T, column, updateTime, Head(malicious_url_batches)),
             column, updateTime, Tail(malicious_url_batches))

\* retrieve_malicious_URLs_(filename): the urls of the rows whose flag equals
\* the column's maximum, for either vendor column.
retrieve_malicious_URLs_(T) ==
    LET lastGoogleMalicious == SetMax({r.lastGoogleMalicious : r \in T})
        lastYandexMalicious == SetMax({r.lastYandexMalicious : r \in T})
    IN {r.url : r \in {q \in T :
            \/ SqlEq(q.lastGoogleMalicious, lastGoogleMalicious)
            \/ SqlEq(q.lastYandexMalicious, lastYandexMalicious)}}

----------------------------------------------------------------------------
(* Inputs and initial contents of the store files *)

\* A batch a feed yields: a set of hostname expressions.
UrlBatches == SUBSET URLs
\* What url_list_fetcher() yields: a finite stream of non-empty batches, or
\* the one empty batch a feed yields when its download failed.
BatchStreams ==
    UNION {[1..n -> UrlBatches \ {{}}] : n \in 0..MaxBatches} \cup {<<{}>>}

\* The urls a stream of batches holds.
UrlsOf(url_batches) == UNION {url_batches[i] : i \in 1..Len(url_batches)}

\* What calling url_list_fetcher returns.  A fetcher written as a plain
\* generator function returns an iterable of the batches.
Iterable(url_batches) == [kind |-> "iterable", url_batches |-> url_batches]
\* _get_top10m_url_list of feeds/top10m.py, the fetcher of the Top10M job,
\* is an "async def" with "yield": calling it returns an async generator,
\* which holds the batches the download would give but has no __iter__.
_get_top10m_url_list(url_batches) ==
    [kind |-> "async_generator", url_batches |-> url_batches]
\* The fetchers add_URLs is called with.
Fetchers ==
    {Iterable(url_batches) : url_batches \in BatchStreams}
        \cup {_get_top10m_url_list(url_batches) : url_batches \in BatchStreams}

\* The addresses of the scaled-down address space, in ascending order.
IPList == [i \in 1..ips_to_generate |-> inet_ntoa(i - 1)]
IPs == Range(IPList)
\* The URL lists update_malicious_URLs is called with for a file: lists of
\* urls the file can hold and of one it never holds.
MaliciousLists(filename) ==
    IF filename = "ipv4"
    THEN SubLists(IPList \o <<"example.com">>)
    ELSE SubLists(<<"example.com", "malware.test", inet_ntoa(0)>>)

\* The ipv4 file as an earlier, interrupted or differently sized population
\* left it: k rows with rowids 1..k.
Prefilled(k) == InsertIPs({}, 0, k)

FeedListed == ExecuteManyUpsert({}, URLs, 1)
\* The feed file when it is not the file written in this behaviour: every
\* url listed, all flagged by Google at time 1, one by Yandex at MaxTime.
FeedSample ==
    UpdateWhereUrlIn(
        UpdateWhereUrlIn(FeedListed, "lastGoogleMalicious", 1,
                         <<"example.com", "malware.test">>),
        "lastYandexMalicious", MaxTime, <<"example.com">>)
\* The ipv4 file when it is not the file written in this behaviour: fully
\* populated, all flagged by Yandex at time 1, one by Google at MaxTime.
IPv4Sample ==
    UpdateWhereUrlIn(
        UpdateWhereUrlIn(RegenerateIPs({}), "lastYandexMalicious", 1, IPList),
        "lastGoogleMalicious", MaxTime, <<inet_ntoa(0)>>)

IdleTxn == [pc |-> "idle"]
IdleLookup == [pc |-> "idle"]
IdleUpdate == [pc |-> "Idle"]
IdleCall == [pc |-> "idle"]

\* create_urls_table / create_ips_table: CREATE TABLE IF NOT EXISTS.  The
\* file written in this behaviour starts empty (a feed) or as an earlier
\* population left it (ipv4); the other file holds its sample.
InitStores ==
    /\ focus \in Filenames
    /\ \/ /\ focus \in FeedFilenames
          /\ db = [f \in Filenames |-> IF f = "ipv4" THEN IPv4Sample ELSE {}]
       \/ /\ focus = "ipv4"
          /\ \E k \in 0..(ips_to_generate + 1) :
                db = [f \in Filenames |-> IF f = "ipv4" THEN Prefilled(k) ELSE FeedSample]

Init ==
    /\ InitStores
    /\ maliciousHashPrefixes = {}
    /\ txn = [v \in Vendors |-> IdleTxn]
    /\ lookup = IdleLookup
    /\ update = IdleUpdate
    /\ call = IdleCall
    /\ last = NoCall

----------------------------------------------------------------------------
(* db_utils.py: the operations on the urls tables *)

\* The program runs the write operations on a file one after the other.
add_URLs(url_list_fetcher, updateTime, filename) ==
    /\ call.pc = "idle"
    /\ filename = focus
    /\ LET urls == url_list_fetcher
       IN IF urls.kind = "async_generator"
          THEN /\ db' = db
               /\ last' = [op |-> "add_URLs", updateTime |-> updateTime,
                           urls |-> {}, raised |-> "TypeError"]
          ELSE /\ db' = [db EXCEPT ![filename] =
                            UpsertBatches(db[filename], urls.url_batches, updateTime)]
               /\ last' = [op |-> "add_URLs", updateTime |-> updateTime,
                           urls |-> UrlsOf(urls.url_batches), raised |-> ""]
    /\ UNCHANGED <<focus, maliciousHashPrefixes, txn, lookup, update, call>>

\* add_IPs runs three transactions, one "with conn:" block each: the
\* SELECT, the DELETE and the loop of the inserts.  A block commits when it
\* is left normally and rolls back when an exception leaves it; other
\* connections see what is committed.  call holds the position of the
\* running call and the rows its open transaction has written.

\* What a finished call leaves in last.
Finished(op, failed) ==
    [op |-> op, failed |-> failed, raised |-> "", filename |-> call.filename,
     before |-> call.before]

\* add_IPs: SELECT MAX(_rowid_) FROM urls in its own transaction; a table
\* with that maximum at ips_to_generate is left as it is.
add_IPs_begin(filename) ==
    /\ call.pc = "idle"
    /\ filename = focus
    /\ LET number_of_ipv4_addresses == MaxRowid(db[filename])
       IN IF number_of_ipv4_addresses # ips_to_generate
          THEN /\ call' = [pc |-> "add_IPs_delete", filename |-> filename,
                           before |-> db[filename]]
               /\ last' = NoCall
          ELSE /\ call' = IdleCall
               /\ last' = [op |-> "add_IPs", failed |-> FALSE, raised |-> "",
                           filename |-> filename, before |-> db[filename]]
    /\ UNCHANGED <<db, focus, maliciousHashPrefixes, txn, lookup, update>>

\* add_IPs: "with conn:" around DELETE FROM urls; committed when the block
\* is left.  The next "with conn:" opens the transaction of the inserts.
add_IPs_delete ==
    /\ call.pc = "add_IPs_delete"
    /\ db' = [db EXCEPT ![call.filename] = {}]
    /\ call' = [pc |-> "add_IPs_insert", filename |-> call.filename,
                before |-> call.before, int_addr |-> 0, rows |-> {}]
    /\ UNCHANGED <<focus, maliciousHashPrefixes, txn, lookup, update, last>>

\* add_IPs: one INSERT of the loop over range(ips_to_generate).
add_IPs_insert ==
    /\ call.pc = "add_IPs_insert"
    /\ call.int_addr < ips_to_generate
    /\ call' = [call EXCEPT !.rows = InsertIPs(@, call.int_addr, call.int_addr + 1),
                            !.int_addr = @ + 1]
    /\ UNCHANGED <<db, focus, maliciousHashPrefixes, txn, lookup, update, last>>

\* add_IPs: the block of the inserts is left after the last one; commit.
add_IPs_commit ==
    /\ call.pc = "add_IPs_insert"
    /\ call.int_addr = ips_to_generate
    /\ db' = [db EXCEPT ![call.filename] = call.rows]
    /\ last' = Finished("add_IPs", FALSE)
    /\ call' = IdleCall
    /\ UNCHANGED <<focus, maliciousHashPrefixes, txn, lookup, update>>

\* add_IPs: the DELETE or an INSERT raises apsw.Error; the transaction of
\* that statement rolls back and "except Error" logs.
add_IPs_error ==
    /\ call.pc \in {"add_IPs_delete", "add_IPs_insert"}
    /\ last' = Finished("add_IPs", TRUE)
    /\ call' = IdleCall
    /\ UNCHANGED <<db, focus, maliciousHashPrefixes, txn, lookup, update>>

update_malicious_URLs(updateTime, vendor, filename, malicious_urls) ==
    /\ call.pc = "idle"
    /\ filename = focus
    /\ db' = [db EXCEPT ![filename] =
                 UpdateBatches(db[filename], vendorToColumn(vendor), updateTime,
                               chunked(malicious_urls, batch_size))]
    /\ last' = [op |-> "update_malicious_URLs"]
    /\ UNCHANGED <<focus, maliciousHashPrefixes, txn, lookup, update, call>>

\* retrieve_malicious_URLs: one retrieve_malicious_URLs_ task per file, each
\* on a connection of its own; a task whose transaction raises apsw.Error
\* ("database is locked" while another connection works on the file) logs
\* it and returns the empty set.  value is the set the returned list is
\* made of.
retrieve_malicious_URLs(urls_filenames) ==
    /\ \E errors \in SUBSET urls_filenames :
          last' = [op |-> "retrieve_malicious_URLs", urls_filenames |-> urls_filenames,
                   errors |-> errors,
                   value |-> UNION {IF f \in errors THEN {}
                                    ELSE retrieve_malicious_URLs_(db[f]) :
                                    f \in urls_filenames}]
    /\ UNCHANGED <<db, focus, maliciousHashPrefixes, txn, lookup, update, call>>

Next ==
    \/ \E url_list_fetcher \in Fetchers, updateTime \in Times, filename \in FeedFilenames :
          add_URLs(url_list_fetcher, updateTime, filename)
    \/ add_IPs_begin("ipv4")
    \/ add_IPs_delete
    \/ add_IPs_insert
    \/ add_IPs_commit
    \/ add_IPs_error
    \/ \E updateTime \in Times, vendor \in Vendors, filename \in Filenames :
       \E malicious_urls \in MaliciousLists(filename) :
          update_malicious_URLs(updateTime, vendor, filename, malicious_urls)

Spec == Init /\ [][Next]_vars

\* The write-back and export phases: every file is populated, and the file
\* written in this behaviour is freshly ingested, no url of it flagged, or
\* as earlier runs left it.
InitExport ==
    /\ focus \in Filenames
    /\ \E fresh \in BOOLEAN :
          db = [f \in Filenames |->
                  IF f = "ipv4"
                  THEN IF fresh /\ f = focus THEN RegenerateIPs({}) ELSE IPv4Sample
                  ELSE IF fresh /\ f = focus THEN FeedListed ELSE FeedSample]
    /\ maliciousHashPrefixes = {}
    /\ txn = [v \in Vendors |-> IdleTxn]
    /\ lookup = IdleLookup
    /\ update = IdleUpdate
    /\ call = IdleCall
    /\ last = NoCall

NextExport ==
    \/ \E updateTime \in Times, vendor \in Vendors, filename \in Filenames :
       \E malicious_urls \in MaliciousLists(filename) :
          update_malicious_URLs(updateTime, vendor, filename, malicious_urls)
    \/ \E urls_filenames \in (SUBSET Filenames) \ {{}} : retrieve_malicious_URLs(urls_filenames)

SpecExport == InitExport /\ [][NextExport]_vars

----------------------------------------------------------------------------
(* db_utils.py: the prefix store malicious.db and the prefix join *)

\* bytes[0:n]
Prefix(bytes, n) == SubSeq(bytes, 1, Min2(n, Len(bytes)))

\* Hash prefixes a vendor can publish: 4 and 8 leading bytes of a listed
\* url's hash, 8 bytes of another url's, 4 bytes of an address's, and 4
\* bytes no hash of the model starts with.
HashPrefixes ==
    {Prefix(sha256("example.com/"), 4), Prefix(sha256("example.com/"), 8),
     Prefix(sha256("malware.test/"), 8), Prefix(sha256("0.0.0.1/"), 4),
     <<0, 0, 0, 0>>}

\* The sets get_malicious_url_hash_prefixes can return.
PrefixSets == {S \in SUBSET HashPrefixes : Cardinality(S) <= MaxPrefixes}

\* (hashPrefix, len(hashPrefix), vendor)
PrefixRow(hashPrefix, vendor) ==
    [hashPrefix |-> hashPrefix, prefixSize |-> Len(hashPrefix), vendor |-> vendor]

VendorRows(P, vendor) == {r \in P : r.vendor = vendor}

\* What other connections see of the table once the writer has executed
\* DELETE FROM maliciousHashPrefixes WHERE vendor = ? inside its transaction.
VisibleAfterDeleteAutocommit(P, vendor) == P \ VendorRows(P, vendor)
VisibleAfterDelete(P, vendor) == P

\* SELECT DISTINCT prefixSize FROM maliciousHashPrefixes WHERE vendor = ?
\* The lists the query can give: the vendor's sizes once each.  The query
\* has no ORDER BY and the table is kept here as a set of rows, so the sizes
\* come in any order.
DistinctPrefixSizes(P, vendor) == Orderings({r.prefixSize : r \in VendorRows(P, vendor)})

substring_from_0(X, Y, Z) == SubSeq(X, Y, Min2(Y + Z - 2, Len(X)))
\* SQLite substring(X, Y, Z) on a blob, for Y >= 1 and Z >= 0: the Z bytes
\* from the Y-th on, fewer at the end of X.
substring(X, Y, Z) == SubSeq(X, Y, Min2(Y + Z - 1, Len(X)))

AnyVendorPrefixes(P, vendor) == {r.hashPrefix : r \in P}
\* SELECT hashPrefix FROM malicious.maliciousHashPrefixes WHERE vendor = ?
SelectVendorPrefixes(P, vendor) == {r.hashPrefix : r \in VendorRows(P, vendor)}

\* The orders in which a scan of the urls table can give its rows: by
\* rowid where the rows carry one (ipv4); any order where the rowid, and
\* with it the order of insertion, is left out (a feed file).
ScanOrders(T) ==
    {rows \in Orderings(T) :
        \A i, j \in 1..Len(rows) :
            (i < j /\ "rowid" \in DOMAIN rows[i]) => rows[i].rowid < rows[j].rowid}

\* SELECT url FROM urls WHERE substring(urls.hash,1,?) IN (SELECT ...):
\* the lists the query can give, the urls of the matching rows in the order
\* of the table scan.
SelectMatchingUrls(T, P, prefixSize, vendor) ==
    LET hit(r) == substring(r.hash, 1, prefixSize) \in SelectVendorPrefixes(P, vendor)
    IN {[i \in 1..Len(rows) |-> rows[i].url] : rows \in ScanOrders({r \in T : hit(r)})}

RECURSIVE flatten(_)
\* more_itertools.flatten: the lists of a list, concatenated.
flatten(lists) ==
    IF lists = <<>> THEN <<>> ELSE Head(lists) \o flatten(Tail(lists))

\* Prefix sizes get_matching_hashPrefix_urls is called with.
PrefixSizeInputs == {Len(p) : p \in HashPrefixes} \cup {0, 32}
\* Lists of prefix sizes identify_suspected_urls is called with.
PrefixSizeLists == UNION {Orderings(S) : S \in SUBSET {Len(p) : p \in HashPrefixes}}

\* Contents the prefix store can have after add_maliciousHashPrefixes calls:
\* any list of Google's next to a list of Yandex's of at most one prefix.
PrefixStores ==
    {{PrefixRow(p, "Google") : p \in G} \cup {PrefixRow(p, "Yandex") : p \in Y} :
     G \in PrefixSets, Y \in {S \in PrefixSets : Cardinality(S) <= 1}}

\* Contents of the feed file and of the ipv4 file the join is run on.
JoinStores ==
    {[f \in Filenames |-> IF f = "ipv4" THEN ipv4 ELSE feed] :
     feed \in SUBSET FeedSample, ipv4 \in {{}, IPv4Sample}}

\* The pre-filter phase: the files are populated and the prefix store has
\* been refreshed; both are only read.
InitJoin ==
    /\ focus = "none"
    /\ db \in JoinStores
    /\ maliciousHashPrefixes \in PrefixStores
    /\ txn = [v \in Vendors |-> IdleTxn]
    /\ lookup = IdleLookup
    /\ update = IdleUpdate
    /\ call = IdleCall
    /\ last = NoCall

\* The prefix refresh phase: an empty prefix store next to populated files.
InitReplace ==
    /\ focus = "none"
    /\ db = [f \in Filenames |-> IF f = "ipv4" THEN IPv4Sample ELSE FeedSample]
    /\ maliciousHashPrefixes = {}
    /\ txn = [v \in Vendors |-> IdleTxn]
    /\ lookup = IdleLookup
    /\ update = IdleUpdate
    /\ call = IdleCall
    /\ last = NoCall

Writing(vendor) == txn[vendor].pc = "writing"

\* add_maliciousHashPrefixes up to the DELETE: the transaction takes the
\* write lock of malicious.db, and its inserts are still to come.
add_maliciousHashPrefixes_begin(hash_prefixes, vendor) ==
    /\ \A v \in Vendors : ~Writing(v)
    /\ txn' = [txn EXCEPT ![vendor] =
                 [pc |-> "writing",
                  hash_prefixes |-> hash_prefixes,
                  rows |-> maliciousHashPrefixes \ VendorRows(maliciousHashPrefixes, vendor),
                  old |-> VendorRows(maliciousHashPrefixes, vendor),
                  new |-> {PrefixRow(q, vendor) : q \in hash_prefixes}]]
    /\ maliciousHashPrefixes' = VisibleAfterDelete(maliciousHashPrefixes, vendor)
    /\ last' = [op |-> "add_maliciousHashPrefixes"]
    /\ UNCHANGED <<db, focus, lookup, update, call>>

\* add_maliciousHashPrefixes while another connection holds the write lock:
\* the DELETE raises apsw.BusyError, which is logged; nothing is written.
add_maliciousHashPrefixes_busy(vendor) ==
    /\ ~Writing(vendor)
    /\ \E v \in Vendors : Writing(v)
    /\ last' = [op |-> "add_maliciousHashPrefixes"]
    /\ UNCHANGED <<db, focus, maliciousHashPrefixes, txn, lookup, update, call>>

\* One INSERT of the executemany, inside the transaction: the next prefix
\* in the iteration of the set, which can be any of those still to come.
add_maliciousHashPrefixes_insert(vendor) ==
    /\ Writing(vendor)
    /\ \E hashPrefix \in txn[vendor].hash_prefixes :
          txn' = [txn EXCEPT
                    ![vendor].rows = @ \cup {PrefixRow(hashPrefix, vendor)},
                    ![vendor].hash_prefixes = @ \ {hashPrefix}]
    /\ last' = [op |-> "add_maliciousHashPrefixes"]
    /\ UNCHANGED <<db, focus, maliciousHashPrefixes, lookup, update, call>>

\* Leaving the with-block: the transaction commits.
add_maliciousHashPrefixes_commit(vendor) ==
    /\ Writing(vendor)
    /\ txn[vendor].hash_prefixes = {}
    /\ maliciousHashPrefixes' = txn[vendor].rows
    /\ txn' = [txn EXCEPT ![vendor] = IdleTxn]
    /\ last' = [op |-> "add_maliciousHashPrefixes"]
    /\ UNCHANGED <<db, focus, lookup, update, call>>

\* An apsw.Error inside the with-block: the transaction is rolled back and
\* the error is logged.
add_maliciousHashPrefixes_error(vendor) ==
    /\ Writing(vendor)
    /\ txn' = [txn EXCEPT ![vendor] = IdleTxn]
    /\ last' = [op |-> "add_maliciousHashPrefixes"]
    /\ UNCHANGED <<db, focus, maliciousHashPrefixes, lookup, update, call>>

\* retrieve_vendor_prefixSizes: a read transaction on its own connection
\* sees the committed table.  When the SELECT raises apsw.Error, as it does
\* with "database is locked" while another connection works on the file,
\* "except Error" logs it and prefixSizes stays [].
retrieve_vendor_prefixSizes(vendor) ==
    /\ \/ \E prefixSizes \in DistinctPrefixSizes(maliciousHashPrefixes, vendor) :
             last' = [op |-> "retrieve_vendor_prefixSizes", vendor |-> vendor,
                      value |-> prefixSizes, failed |-> FALSE,
                      writing |-> Writing(vendor)]
       \/ last' = [op |-> "retrieve_vendor_prefixSizes", vendor |-> vendor,
                   value |-> <<>>, failed |-> TRUE, writing |-> Writing(vendor)]
    /\ UNCHANGED <<db, focus, maliciousHashPrefixes, txn, lookup, update, call>>

\* The tasks of the call on the prefix join that is running.
Tasks == IF call.pc = "tasks" THEN DOMAIN call.tasks ELSE {}

\* A get_matching_hashPrefix_urls call after create_connection: urls = [],
\* and the transaction of the ATTACH and the SELECT is to come.
NewTask == [pc |-> "select", urls |-> <<>>, error |-> ""]

\* get_matching_hashPrefix_urls called on its own.
get_matching_hashPrefix_urls_begin(filename, prefixSize, vendor) ==
    /\ call.pc = "idle"
    /\ call' = [pc |-> "tasks", op |-> "get_matching_hashPrefix_urls",
                vendor |-> vendor, filename |-> filename,
                prefixSizes |-> <<prefixSize>>, tasks |-> <<NewTask>>]
    /\ last' = NoCall
    /\ UNCHANGED <<db, focus, maliciousHashPrefixes, txn, lookup, update>>

\* identify_suspected_urls up to the dispatch of its tasks: execute_with_ray
\* runs get_matching_hashPrefix_urls once for every prefix size, each call
\* on a connection of its own, the calls in parallel.
identify_suspected_urls_begin(vendor, filename, prefixSizes) ==
    /\ call.pc = "idle"
    /\ call' = [pc |-> "tasks", op |-> "identify_suspected_urls",
                vendor |-> vendor, filename |-> filename,
                prefixSizes |-> prefixSizes,
                tasks |-> [i \in 1..Len(prefixSizes) |-> NewTask]]
    /\ last' = NoCall
    /\ UNCHANGED <<db, focus, maliciousHashPrefixes, txn, lookup, update>>

\* get_matching_hashPrefix_urls, first "with conn:": ATTACH and SELECT in
\* one transaction.  Either the query gives its rows, or a statement raises
\* apsw.Error ("database is locked" at the ATTACH while another task works
\* on the files): the error is logged, urls stays [] and the second block
\* is skipped.
get_matching_hashPrefix_urls_select(task) ==
    /\ task \in Tasks
    /\ call.tasks[task].pc = "select"
    /\ \/ \E urls \in SelectMatchingUrls(db[call.filename], maliciousHashPrefixes,
                                          call.prefixSizes[task], call.vendor) :
             call' = [call EXCEPT !.tasks[task] =
                         [pc |-> "detach", urls |-> urls, error |-> ""]]
       \/ call' = [call EXCEPT !.tasks[task] =
                      [pc |-> "done", urls |-> <<>>, error |-> "select"]]
    /\ UNCHANGED <<db, focus, maliciousHashPrefixes, txn, lookup, update, last>>

\* get_matching_hashPrefix_urls, second "with conn:": DETACH.  An apsw.Error
\* here is logged and leaves urls as the SELECT gave it.
get_matching_hashPrefix_urls_detach(task) ==
    /\ task \in Tasks
    /\ call.tasks[task].pc = "detach"
    /\ \E error \in {"", "detach"} :
          call' = [call EXCEPT !.tasks[task].pc = "done", !.tasks[task].error = error]
    /\ UNCHANGED <<db, focus, maliciousHashPrefixes, txn, lookup, update, last>>

\* What a finished call on the prefix join leaves in last: errors lists, for
\* every task, the block whose error it logged.
Joined(value) ==
    [op |-> call.op, vendor |-> call.vendor, filename |-> call.filename,
     prefixSizes |-> call.prefixSizes, value |-> value,
     errors |-> [i \in DOMAIN call.tasks |-> call.tasks[i].error]]

\* get_matching_hashPrefix_urls called on its own: conn.close(); return urls
get_matching_hashPrefix_urls_return ==
    /\ call.pc = "tasks"
    /\ call.op = "get_matching_hashPrefix_urls"
    /\ call.tasks[1].pc = "done"
    /\ last' = Joined(call.tasks[1].urls)
    /\ call' = IdleCall
    /\ UNCHANGED <<db, focus, maliciousHashPrefixes, txn, lookup, update>>

\* identify_suspected_urls once every task has returned:
\* list(flatten(results)), the results in the order of the prefix sizes.
identify_suspected_urls_end ==
    /\ call.pc = "tasks"
    /\ call.op = "identify_suspected_urls"
    /\ \A i \in DOMAIN call.tasks : call.tasks[i].pc = "done"
    /\ last' = Joined(flatten([i \in DOMAIN call.tasks |-> call.tasks[i].urls]))
    /\ call' = IdleCall
    /\ UNCHANGED <<db, focus, maliciousHashPrefixes, txn, lookup, update>>

NextReplace ==
    \/ \E hash_prefixes \in PrefixSets, vendor \in Vendors :
          add_maliciousHashPrefixes_begin(hash_prefixes, vendor)
    \/ \E vendor \in Vendors : add_maliciousHashPrefixes_busy(vendor)
    \/ \E vendor \in Vendors : add_maliciousHashPrefixes_insert(vendor)
    \/ \E vendor \in Vendors : add_maliciousHashPrefixes_commit(vendor)
    \/ \E vendor \in Vendors : add_maliciousHashPrefixes_error(vendor)
    \/ \E vendor \in Vendors : retrieve_vendor_prefixSizes(vendor)

SpecReplace == InitReplace /\ [][NextReplace]_vars

\* The pre-filter, one call at a time: what the calls running next to it
\* do to a call is the store error a statement of it can raise.
NextJoin ==
    \/ \E vendor \in Vendors : call.pc = "idle" /\ retrieve_vendor_prefixSizes(vendor)
    \/ \E filename \in Filenames, prefixSize \in PrefixSizeInputs, vendor \in Vendors :
          get_matching_hashPrefix_urls_begin(filename, prefixSize, vendor)
    \/ \E vendor \in Vendors, filename \in Filenames, prefixSizes \in PrefixSizeLists :
          identify_suspected_urls_begin(vendor, filename, prefixSizes)
    \/ \E task \in Tasks : get_matching_hashPrefix_urls_select(task)
    \/ \E task \in Tasks : get_matching_hashPrefix_urls_detach(task)
    \/ get_matching_hashPrefix_urls_return
    \/ identify_suspected_urls_end

SpecJoin == InitJoin /\ [][NextJoin]_vars

----------------------------------------------------------------------------
(* safebrowsing.py: the Lookup-API client *)

\* In the Lookup client a suspect url is a number n, standing for the n-th
\* hostname expression, and a url with a scheme is the pair <<scheme, n>>.

maximum_url_batch_size_500(vendor) == 500
\* SafeBrowsing.__init__: self.maximum_url_batch_size
maximum_url_batch_size(vendor) == IF vendor = "Google" THEN 500 ELSE 200

\* _threat_matches_payload: "threatEntries": [{"url": f"http://{url}"} ...]
\* (the client and threatInfo constants of the payload are left out).
_threat_matches_payload(url_list) ==
    [threatEntries |-> [i \in 1..Len(url_list) |-> [url |-> <<"http://", url_list[i]>>]]]

\* requests.Response(): a response without status, headers or content.
EmptyResponse == [has_content |-> FALSE]
\* A response of the vendor's server with a JSON body.
ServerResponse(body) == [has_content |-> TRUE, body |-> body]

Match(scheme, url) == [threat |-> [url |-> <<scheme, url>>]]
\* Bodies the threatMatches endpoint can answer a batch with: no match; the
\* batch's first url matched by two threat lists; its first and last url
\* matched, reported with the https scheme.
ServerBodies(url_batch) ==
    {[empty |-> TRUE],
     [matches |-> <<Match("http://", url_batch[1]), Match("http://", url_batch[1])>>],
     [matches |-> <<Match("https://", url_batch[1]),
                    Match("https://", url_batch[Len(url_batch)])>>]}

\* post_with_retries(endpoint, data): the server's response, or
\* requests.exceptions.RequestException when the request fails for good.
PostOutcomes(url_batch) ==
    {[raised |-> FALSE, res |-> ServerResponse(b)] : b \in ServerBodies(url_batch)}
        \cup {[raised |-> TRUE]}

\* _threat_matches_lookup: try: res = post_with_retries(...)
\* except RequestException: res = requests.Response()
LookupResponse(outcome) == IF outcome.raised THEN EmptyResponse ELSE outcome.res

\* Response.json() raises JSONDecodeError on a response without content.
JsonRaises(res) == ~res.has_content

\* x["threat"]["url"].replace("https://", "").replace("http://", "")
StripScheme(url) ==
    IF url[1] \in {"https://", "http://"} THEN url[2] ELSE url

\* The urls of the matches of the responses whose JSON body has "matches".
MaliciousUrls(results) ==
    UNION {{StripScheme(results[i].body.matches[j].threat.url) :
               j \in 1..Len(results[i].body.matches)} :
           i \in {k \in 1..Len(results) : "matches" \in DOMAIN results[k].body}}

\* Sizes of the suspect sets given to get_malicious_urls: around every
\* multiple of the batch size up to MaxLookupBatches batches, and 12/5 of
\* the batch size (1 200 for Google, three batches).
SuspectCounts(vendor) ==
    LET cap == maximum_url_batch_size(vendor)
    IN {n \in 0..(MaxLookupBatches * cap) : n % cap \in {0, 1, cap - 1}}
          \cup {(12 * cap) \div 5}

\* The urls of a suspect set in the order its iteration gives.
SuspectList(n) == [i \in 1..n |-> i]

InitLookup ==
    /\ focus = "none"
    /\ db = [f \in Filenames |-> IF f = "ipv4" THEN IPv4Sample ELSE FeedSample]
    /\ maliciousHashPrefixes = {}
    /\ txn = [v \in Vendors |-> IdleTxn]
    /\ lookup = IdleLookup
    /\ update = IdleUpdate
    /\ call = IdleCall
    /\ last = NoCall

\* The tasks of a call whose POST is still to come.
Unposted ==
    {task \in 1..Len(lookup.url_batches) :
        \A i \in 1..Len(lookup.posts) : lookup.posts[i].task # task}

\* get_malicious_urls up to the dispatch of its batches.  The tasks of
\* execute_with_ray are numbered in the order of their batches: posts lists
\* the POSTs in the order they went out, each with its task; sleeping maps
\* the tasks between their POST and their return to the response they
\* hold, results maps the tasks that have returned to their result.
get_malicious_urls_begin(vendor, urls) ==
    /\ lookup.pc = "idle"
    /\ lookup' = [pc |-> "posting", vendor |-> vendor, urls |-> urls,
                  url_batches |-> chunked(urls, maximum_url_batch_size(vendor)),
                  posts |-> <<>>, sleeping |-> <<>>, results |-> <<>>]
    /\ last' = NoCall
    /\ UNCHANGED <<db, focus, maliciousHashPrefixes, txn, update, call>>

\* _threat_matches_lookup up to time.sleep(2), in any task that has not
\* posted yet: the payload is posted and the task holds the response.  The
\* tasks run in parallel, so the POSTs go out in any order of the batches
\* and a task can post while others still sleep.
_threat_matches_lookup_post ==
    /\ lookup.pc = "posting"
    /\ \E task \in Unposted :
       \E outcome \in PostOutcomes(lookup.url_batches[task]) :
          lookup' = [lookup EXCEPT
                       !.posts = Append(@, [task |-> task,
                                            data |-> _threat_matches_payload(
                                                         lookup.url_batches[task])]),
                       !.sleeping = @ @@ (task :> LookupResponse(outcome))]
    /\ UNCHANGED <<db, focus, maliciousHashPrefixes, txn, update, call, last>>

\* _threat_matches_lookup from the end of time.sleep(2) on, in any of the
\* sleeping tasks: return res.
_threat_matches_lookup_return ==
    /\ lookup.pc = "posting"
    /\ \E task \in DOMAIN lookup.sleeping :
          lookup' = [lookup EXCEPT
                       !.sleeping = [t \in (DOMAIN lookup.sleeping) \ {task} |->
                                        lookup.sleeping[t]],
                       !.results = @ @@ (task :> lookup.sleeping[task])]
    /\ UNCHANGED <<db, focus, maliciousHashPrefixes, txn, update, call, last>>

\* get_malicious_urls from the collection of the results on: every task
\* has returned, and the results are in the order of the batches.
get_malicious_urls_end ==
    /\ lookup.pc = "posting"
    /\ Unposted = {}
    /\ DOMAIN lookup.sleeping = {}
    /\ LET results == [task \in 1..Len(lookup.url_batches) |-> lookup.results[task]]
       IN last' = IF \E i \in 1..Len(results) : JsonRaises(results[i])
                  THEN [op |-> "get_malicious_urls", raised |-> "JSONDecodeError",
                        results |-> results]
                  ELSE [op |-> "get_malicious_urls", raised |-> "",
                        results |-> results,
                        value |-> MaliciousUrls(results)]
    /\ lookup' = IdleLookup
    /\ UNCHANGED <<db, focus, maliciousHashPrefixes, txn, update, call>>

NextLookup ==
    \/ \E vendor \in Vendors : \E n \in SuspectCounts(vendor) :
          get_malicious_urls_begin(vendor, SuspectList(n))
    \/ _threat_matches_lookup_post
    \/ _threat_matches_lookup_return
    \/ get_malicious_urls_end

SpecLookup == InitLookup /\ [][NextLookup]_vars

----------------------------------------------------------------------------
(* safebrowsing.py: the Update-API client *)

\* Most listUpdateResponses in one answer of the threatListUpdates endpoint.
MaxListUpdateResponses == 2

\* A base64 text is a sequence of one-character strings.
Base64Alphabet ==
    <<"A", "B", "C", "D", "E", "F", "G", "H", "I", "J", "K", "L", "M",
      "N", "O", "P", "Q", "R", "S", "T", "U", "V", "W", "X", "Y", "Z",
      "a", "b", "c", "d", "e", "f", "g", "h", "i", "j", "k", "l", "m",
      "n", "o", "p", "q", "r", "s", "t", "u", "v", "w", "x", "y", "z",
      "0", "1", "2", "3", "4", "5", "6", "7", "8", "9", "+", "/">>

IsBase64Char(ch) == \E i \in 1..64 : Base64Alphabet[i] = ch
Base64Value(ch) == (CHOOSE i \in 1..64 : Base64Alphabet[i] = ch) - 1

\* What binascii.a2b_base64 does with the characters that follow the
\* padding that completes a group differs between the interpreter builds the
\* client runs on: CPython 3.7.16 to 3.13.0 end the decoding there and do not
\* read what follows; CPython 3.13.13 reads on, and alphabet characters that
\* follow the padding continue the group the padding had completed.
Interpreters == {"CPython 3.7.16 to 3.13.0", "CPython 3.13.13"}

RECURSIVE a2b_base64(_, _, _)
\* binascii.a2b_base64 without strict_mode, as base64.b64decode calls it:
\* characters outside the alphabet are skipped; "=" counts as padding from
\* the third character of a group on, and an alphabet character starts the
\* count anew.
a2b_base64(text, st, interpreter) ==
    IF text = <<>> \/ st.done THEN st
    ELSE LET ch == Head(text) IN
         IF ch = "="
         THEN IF st.quad_pos >= 2 /\ st.quad_pos + st.pads + 1 >= 4
              THEN IF interpreter = "CPython 3.7.16 to 3.13.0"
                   THEN [st EXCEPT !.done = TRUE]
                   ELSE a2b_base64(Tail(text), [st EXCEPT !.pads = @ + 1], interpreter)
              ELSE a2b_base64(Tail(text),
                      [st EXCEPT !.pads = IF st.quad_pos >= 2 THEN @ + 1 ELSE @],
                      interpreter)
         ELSE IF ~IsBase64Char(ch)
         THEN a2b_base64(Tail(text), st, interpreter)
         ELSE LET v == Base64Value(ch) IN
              a2b_base64(Tail(text),
                 CASE st.quad_pos = 0 ->
                        [st EXCEPT !.quad_pos = 1, !.leftchar = v, !.pads = 0]
                   [] st.quad_pos = 1 ->
                        [st EXCEPT !.quad_pos = 2, !.pads = 0, !.leftchar = v % 16,
                                   !.bin = Append(@, st.leftchar * 4 + v \div 16)]
                   [] st.quad_pos = 2 ->
                        [st EXCEPT !.quad_pos = 3, !.pads = 0, !.leftchar = v % 4,
                                   !.bin = Append(@, st.leftchar * 16 + v \div 4)]
                   [] st.quad_pos = 3 ->
                        [st EXCEPT !.quad_pos = 0, !.pads = 0, !.leftchar = 0,
                                   !.bin = Append(@, st.leftchar * 64 + v)],
                 interpreter)

\* base64.b64decode(s): the decoded bytes, or binascii.Error when the data
\* characters do not end on a group of four and no padding completes them
\* at the place the decoding ends.
b64decode(s, interpreter) ==
    LET st == a2b_base64(s, [quad_pos |-> 0, leftchar |-> 0, pads |-> 0,
                             bin |-> <<>>, done |-> FALSE], interpreter)
    IN IF st.done \/ st.quad_pos = 0 \/ (st.quad_pos >= 2 /\ st.quad_pos + st.pads >= 4)
       THEN [raised |-> "", value |-> st.bin]
       ELSE [raised |-> "binascii.Error"]

\* rawHashes texts of an addition: the base64 of one 4-byte prefix, of one
\* 8-byte prefix and of two 4-byte prefixes; then the first text without
\* its padding, with a character outside the alphabet, a single character,
\* and the first text with four more characters after its padding, which
\* decodes to the same prefix where the decoding ends at the padding and
\* raises where it reads on.
RawHashesTexts ==
    {<<"c", "9", "m", "G", "4", "A", "=", "=">>,
     <<"c", "9", "m", "G", "4", "A", "k", "G", "X", "x", "g", "=">>,
     <<"c", "9", "m", "G", "4", "B", "K", "L", "+", "/", "I", "=">>,
     <<"c", "9", "m", "G", "4", "A">>,
     <<"c", "9", "m", "*", "G", "4", "A", "=", "=">>,
     <<"c">>,
     <<"c", "9", "m", "G", "4", "A", "=", "=", "A", "A", "A", "A">>}

\* The prefixSize an addition states for its rawHashes text.
StatedPrefixSize(text) == IF Len(text) = 12 /\ text[7] = "k" THEN 8 ELSE 4

\* "additions": [{"rawHashes": {"prefixSize": n, "rawHashes": text}}]
Addition(text) ==
    [rawHashes |-> [prefixSize |-> StatedPrefixSize(text), rawHashes |-> text]]

\* One entry of listUpdateResponses: with one addition, or without the
\* "additions" key.
ListUpdateResponses ==
    {[threatType |-> "MALWARE", additions |-> <<Addition(text)>>] : text \in RawHashesTexts}
        \cup {[threatType |-> "MALWARE"]}

RECURSIVE SeqsUpTo(_, _)
\* The non-empty sequences over S of length at most n.
SeqsUpTo(S, n) ==
    IF n = 0 THEN {}
    ELSE {<<x>> : x \in S} \cup {<<x>> \o s : x \in S, s \in SeqsUpTo(S, n - 1)}

\* JSON bodies of the threatListUpdates endpoint: the two documented keys,
\* one of them missing, or an error object.
UpdatesBodies ==
    {[listUpdateResponses |-> l, minimumWaitDuration |-> "1800s"] :
        l \in SeqsUpTo(ListUpdateResponses, MaxListUpdateResponses)}
    \cup {[listUpdateResponses |-> <<l>>] : l \in ListUpdateResponses}
    \cup {[minimumWaitDuration |-> "1800s"], [error |-> "INVALID_ARGUMENT"]}

\* JSON bodies of the threatLists endpoint.
ThreatListsBodies ==
    {[threatLists |->
         <<[threatType |-> "MALWARE", platformType |-> "ANY_PLATFORM", threatEntryType |-> "URL"],
           [threatType |-> "MALWARE", platformType |-> "WINDOWS", threatEntryType |-> "EXECUTABLE"],
           [threatType |-> "MALWARE", platformType |-> "ANY_PLATFORM", threatEntryType |-> "IP_RANGE"],
           [threatType |-> "MALWARE", platformType |-> "ANY_PLATFORM"]>>],
     [error |-> "PERMISSION_DENIED"]}

\* get_with_retries(url) / post_with_retries(url, payload) when the server
\* answers 200 with one of the bodies, and when it answers 503 for good:
\* the wrapper then hands back the 503 response with its error body, hands
\* back an empty response, or raises requests.exceptions.RequestException.
RetriedOutcomes(bodies) ==
    {[answer |-> 200, raised |-> FALSE, res |-> ServerResponse(b)] : b \in bodies}
    \cup {[answer |-> 503, raised |-> FALSE, res |-> ServerResponse([error |-> "UNAVAILABLE"])],
          [answer |-> 503, raised |-> FALSE, res |-> EmptyResponse],
          [answer |-> 503, raised |-> TRUE]}

\* url_threatlist_combinations of _retrieve_threat_list_updates
url_threatlist_combinations(vendor, threatlist_combinations) ==
    IF vendor = "Google"
    THEN SelectSeq(threatlist_combinations,
                   LAMBDA x : /\ "threatEntryType" \in DOMAIN x
                              /\ x.threatEntryType \in {"URL", "IP_RANGE"})
    ELSE <<[threatType |-> "ANY", platformType |-> "ANY_PLATFORM",
            threatEntryType |-> "URL", state |-> ""],
           [threatType |-> "UNWANTED_SOFTWARE", threatEntryType |-> "URL",
            platformType |-> "PLATFORM_TYPE_UNSPECIFIED", state |-> ""],
           [threatType |-> "MALWARE", threatEntryType |-> "URL",
            platformType |-> "PLATFORM_TYPE_UNSPECIFIED", state |-> ""],
           [threatType |-> "SOCIAL_ENGINEERING", threatEntryType |-> "URL",
            platformType |-> "PLATFORM_TYPE_UNSPECIFIED", state |-> ""]>>

\* The hash prefixes of one addition: the decoded rawHashes cut into slices
\* of prefixSize bytes.
AdditionPrefixes(addition, interpreter) ==
    LET raw_hash_prefixes_ == addition.rawHashes
        decoded == b64decode(raw_hash_prefixes_.rawHashes, interpreter)
    IN IF decoded.raised # "" THEN decoded
       ELSE [raised |-> "",
             value |-> Range(chunked(decoded.value, raw_hash_prefixes_.prefixSize))]

RECURSIVE CollectAdditions(_, _, _)
\* for addition in list_update_response["additions"]: hash_prefixes.update(...)
CollectAdditions(additions, hash_prefixes, interpreter) ==
    IF additions = <<>> THEN [raised |-> "", value |-> hash_prefixes]
    ELSE LET a == AdditionPrefixes(Head(additions), interpreter)
         IN IF a.raised # "" THEN a
            ELSE CollectAdditions(Tail(additions), hash_prefixes \cup a.value, interpreter)

RECURSIVE CollectResponses(_, _, _)
\* for list_update_response in list_update_responses: ...
CollectResponses(list_update_responses, hash_prefixes, interpreter) ==
    IF list_update_responses = <<>> THEN [raised |-> "", value |-> hash_prefixes]
    ELSE IF "additions" \notin DOMAIN Head(list_update_responses)
         THEN [raised |-> "KeyError"]
         ELSE LET c == CollectAdditions(Head(list_update_responses).additions,
                                        hash_prefixes, interpreter)
              IN IF c.raised # "" THEN c
                 ELSE CollectResponses(Tail(list_update_responses), c.value, interpreter)

\* The client between two runs.
InitUpdate ==
    /\ focus = "none"
    /\ db = [f \in Filenames |-> IF f = "ipv4" THEN IPv4Sample ELSE FeedSample]
    /\ maliciousHashPrefixes = {}
    /\ txn = [v \in Vendors |-> IdleTxn]
    /\ lookup = IdleLookup
    /\ update = IdleUpdate
    /\ call = IdleCall
    /\ last = NoCall

\* get_malicious_url_hash_prefixes up to the call of
\* _retrieve_threat_list_updates.
get_malicious_url_hash_prefixes_begin(vendor) ==
    /\ update.pc = "Idle"
    /\ update' = [pc |-> "ListingThreatLists", vendor |-> vendor]
    /\ last' = NoCall
    /\ UNCHANGED <<db, focus, maliciousHashPrefixes, txn, lookup, call>>

\* _retrieve_threat_list_updates: get_with_retries(...).json()["threatLists"]
\* and the choice of the lists to ask for.  An exception leaves the method
\* and its caller.
_retrieve_threat_list_updates_get ==
    /\ update.pc = "ListingThreatLists"
    /\ \E outcome \in RetriedOutcomes(ThreatListsBodies) :
          update' =
             IF outcome.raised
             THEN [pc |-> "Raised", vendor |-> update.vendor, get |-> outcome,
                   post |-> NoCall, raised |-> "RequestException"]
             ELSE IF JsonRaises(outcome.res)
             THEN [pc |-> "Raised", vendor |-> update.vendor, get |-> outcome,
                   post |-> NoCall, raised |-> "JSONDecodeError"]
             ELSE IF "threatLists" \notin DOMAIN outcome.res.body
             THEN [pc |-> "Raised", vendor |-> update.vendor, get |-> outcome,
                   post |-> NoCall, raised |-> "KeyError"]
             ELSE [pc |-> "FetchingUpdates", vendor |-> update.vendor, get |-> outcome,
                   req_body |-> [listUpdateRequests |->
                       url_threatlist_combinations(update.vendor,
                                                   outcome.res.body.threatLists)]]
    /\ UNCHANGED <<db, focus, maliciousHashPrefixes, txn, lookup, call, last>>

\* _retrieve_threat_list_updates: post_with_retries(...), res.json(), the
\* test for "listUpdateResponses", and the logging of
\* res_json["minimumWaitDuration"].  The empty dict is <<>>.
_retrieve_threat_list_updates_post ==
    /\ update.pc = "FetchingUpdates"
    /\ \E outcome \in RetriedOutcomes(UpdatesBodies) :
          update' =
             IF outcome.raised
             THEN [pc |-> "Raised", vendor |-> update.vendor, get |-> update.get,
                   post |-> outcome, raised |-> "RequestException"]
             ELSE IF JsonRaises(outcome.res)
             THEN [pc |-> "Raised", vendor |-> update.vendor, get |-> update.get,
                   post |-> outcome, raised |-> "JSONDecodeError"]
             ELSE IF "listUpdateResponses" \notin DOMAIN outcome.res.body
             THEN [pc |-> "Parsing", vendor |-> update.vendor, get |-> update.get,
                   post |-> outcome, res_json |-> <<>>]
             ELSE IF "minimumWaitDuration" \notin DOMAIN outcome.res.body
             THEN [pc |-> "Raised", vendor |-> update.vendor, get |-> update.get,
                   post |-> outcome, raised |-> "KeyError"]
             ELSE [pc |-> "Parsing", vendor |-> update.vendor, get |-> update.get,
                   post |-> outcome, res_json |-> outcome.res.body]
    /\ UNCHANGED <<db, focus, maliciousHashPrefixes, txn, lookup, call, last>>

\* get_malicious_url_hash_prefixes from the return of
\* _retrieve_threat_list_updates on: set() for {}, else the prefixes of all
\* additions, decoded as the running interpreter build decodes them; an exception
\* of either method reaches the caller.
get_malicious_url_hash_prefixes_end ==
    /\ update.pc \in {"Parsing", "Raised"}
    /\ \E interpreter \in Interpreters :
          LET result ==
                 IF update.pc = "Raised" THEN [raised |-> update.raised]
                 ELSE IF update.res_json = <<>> THEN [raised |-> "", value |-> {}]
                 ELSE CollectResponses(update.res_json.listUpdateResponses, {}, interpreter)
          IN last' = [op |-> "get_malicious_url_hash_prefixes", vendor |-> update.vendor,
                      get |-> update.get, post |-> update.post,
                      raised |-> result.raised,
                      value |-> IF result.raised = "" THEN result.value ELSE {}]
    /\ update' = IdleUpdate
    /\ UNCHANGED <<db, focus, maliciousHashPrefixes, txn, lookup, call>>

NextUpdate ==
    \/ \E vendor \in Vendors : get_malicious_url_hash_prefixes_begin(vendor)
    \/ _retrieve_threat_list_updates_get
    \/ _retrieve_threat_list_updates_post
    \/ get_malicious_url_hash_prefixes_end

SpecUpdate == InitUpdate /\ [][NextUpdate]_vars

----------------------------------------------------------------------------
(* db_utils.py: the write operations on the urls tables, statement by      *)
(* statement, with the store errors (apsw.Error) a statement can raise.    *)
(* Every "with conn:" block is one transaction: it commits when the block  *)
(* is left normally and rolls back when an exception leaves it.  A         *)
(* behaviour runs one operation on a store that earlier runs have left.    *)

\* Most 30 000-url chunks of a list given to update_malicious_URLs.
MaxChunks == 2

\* Contents of a feed file: empty, one row, all urls listed, all flagged.
FeedStores == {{}, FeedListed, FeedSample} \cup {{r} : r \in FeedSample}
\* Contents of the ipv4 file: k rows of an earlier population, or the full
\* flagged population.
IPv4Stores == {Prefilled(k) : k \in 0..(ips_to_generate + 1)} \cup {IPv4Sample}

\* A list of n distinct urls: first and final are its first and its last
\* url, the urls between them are held by no store.
LongList(n, first, final) ==
    SubSeq([i \in 1..n |-> IF i = 1 THEN first ELSE IF i = n THEN final ELSE ToString(i)],
           1, n)

\* Lengths of the lists of confirmed urls: none, one, and around the chunk
\* size of update_malicious_URLs up to MaxChunks full chunks.
MarkSizes == {0, 1, batch_size - 1, batch_size, batch_size + 1, MaxChunks * batch_size}

\* The first and last url of such a list for a file: two urls the file can
\* hold, or a url it never holds and one it can hold.
MarkEnds(filename) ==
    IF filename = "ipv4"
    THEN {<<inet_ntoa(0), inet_ntoa(1)>>, <<"example.com", inet_ntoa(1)>>}
    ELSE {<<"example.com", "malware.test">>, <<inet_ntoa(0), "malware.test">>}

MarkLists(filename) ==
    {LongList(n, e[1], e[2]) : n \in MarkSizes, e \in MarkEnds(filename)}

InitSteps ==
    /\ focus \in Filenames
    /\ \/ /\ focus \in FeedFilenames
          /\ \E T \in FeedStores :
                db = [f \in Filenames |-> IF f = "ipv4" THEN IPv4Sample ELSE T]
       \/ /\ focus = "ipv4"
          /\ \E T \in IPv4Stores :
                db = [f \in Filenames |-> IF f = "ipv4" THEN T ELSE FeedSample]
    /\ maliciousHashPrefixes = {}
    /\ txn = [v \in Vendors |-> IdleTxn]
    /\ lookup = IdleLookup
    /\ update = IdleUpdate
    /\ call = IdleCall
    /\ last = NoCall

\* add_URLs: "with conn:" opens the one transaction of the call.
add_URLs_begin(url_list_fetcher, updateTime, filename) ==
    /\ call.pc = "idle"
    /\ filename = focus
    /\ call' = [pc |-> "add_URLs", filename |-> filename, before |-> db[filename],
                lastListed |-> updateTime, kind |-> url_list_fetcher.kind,
                urls |-> url_list_fetcher.url_batches, rows |-> db[filename]]
    /\ last' = NoCall
    /\ UNCHANGED <<db, focus, maliciousHashPrefixes, txn, lookup, update>>

\* add_URLs: cur.executemany for the next batch, inside the transaction.
add_URLs_executemany ==
    /\ call.pc = "add_URLs"
    /\ call.kind = "iterable"
    /\ call.urls # <<>>
    /\ call' = [call EXCEPT
                  !.rows = ExecuteManyUpsert(@, Head(call.urls), call.lastListed),
                  !.urls = Tail(@)]
    /\ UNCHANGED <<db, focus, maliciousHashPrefixes, txn, lookup, update, last>>

\* add_URLs: the with-block is left after the last batch; commit.
add_URLs_commit ==
    /\ call.pc = "add_URLs"
    /\ call.kind = "iterable"
    /\ call.urls = <<>>
    /\ db' = [db EXCEPT ![call.filename] = call.rows]
    /\ last' = Finished("add_URLs", FALSE)
    /\ call' = IdleCall
    /\ UNCHANGED <<focus, maliciousHashPrefixes, txn, lookup, update>>

\* add_URLs: a statement raises apsw.Error; the transaction rolls back and
\* "except Error" logs.
add_URLs_error ==
    /\ call.pc = "add_URLs"
    /\ last' = Finished("add_URLs", TRUE)
    /\ call' = IdleCall
    /\ UNCHANGED <<db, focus, maliciousHashPrefixes, txn, lookup, update>>

\* add_URLs: "for url_batch in urls" over an async generator raises
\* TypeError before any batch is read.  The with-block rolls back;
\* TypeError is no apsw.Error, so "except Error" does not run, nothing is
\* logged and the exception leaves add_URLs.
add_URLs_raise ==
    /\ call.pc = "add_URLs"
    /\ call.kind = "async_generator"
    /\ last' = [Finished("add_URLs", FALSE) EXCEPT !.raised = "TypeError"]
    /\ call' = IdleCall
    /\ UNCHANGED <<db, focus, maliciousHashPrefixes, txn, lookup, update>>

\* update_malicious_URLs up to the loop over the chunks.
update_malicious_URLs_begin(updateTime, vendor, filename, malicious_urls) ==
    /\ call.pc = "idle"
    /\ filename = focus
    /\ call' = [pc |-> "update_malicious_URLs", filename |-> filename,
                before |-> db[filename], updateTime |-> updateTime, vendor |-> vendor,
                malicious_urls |-> malicious_urls,
                malicious_url_batches |-> chunked(malicious_urls, batch_size)]
    /\ last' = NoCall
    /\ UNCHANGED <<db, focus, maliciousHashPrefixes, txn, lookup, update>>

\* update_malicious_URLs: one round of the loop, "with conn:" around the
\* UPDATE of one chunk; the chunk is committed when the block is left.
update_malicious_URLs_batch ==
    /\ call.pc = "update_malicious_URLs"
    /\ call.malicious_url_batches # <<>>
    /\ db' = [db EXCEPT ![call.filename] =
                 UpdateWhereUrlIn(@, vendorToColumn(call.vendor), call.updateTime,
                                  Head(call.malicious_url_batches))]
    /\ call' = [call EXCEPT !.malicious_url_batches = Tail(@)]
    /\ UNCHANGED <<focus, maliciousHashPrefixes, txn, lookup, update, last>>

\* update_malicious_URLs: the loop has ended.
update_malicious_URLs_end ==
    /\ call.pc = "update_malicious_URLs"
    /\ call.malicious_url_batches = <<>>
    /\ last' = [op |-> "update_malicious_URLs", failed |-> FALSE,
                filename |-> call.filename, before |-> call.before,
                updateTime |-> call.updateTime, vendor |-> call.vendor,
                malicious_urls |-> call.malicious_urls]
    /\ call' = IdleCall
    /\ UNCHANGED <<db, focus, maliciousHashPrefixes, txn, lookup, update>>

\* update_malicious_URLs: the UPDATE of the next chunk raises apsw.Error;
\* that chunk's transaction rolls back, the exception leaves the loop and
\* "except Error" logs.
update_malicious_URLs_error ==
    /\ call.pc = "update_malicious_URLs"
    /\ call.malicious_url_batches # <<>>
    /\ last' = [op |-> "update_malicious_URLs", failed |-> TRUE,
                filename |-> call.filename, before |-> call.before,
                updateTime |-> call.updateTime, vendor |-> call.vendor,
                malicious_urls |-> call.malicious_urls]
    /\ call' = IdleCall
    /\ UNCHANGED <<db, focus, maliciousHashPrefixes, txn, lookup, update>>

\* A behaviour runs one operation: none begins once one has finished.
NextSteps ==
    \/ \E url_list_fetcher \in Fetchers, updateTime \in Times, filename \in FeedFilenames :
          last = NoCall /\ add_URLs_begin(url_list_fetcher, updateTime, filename)
    \/ add_URLs_executemany
    \/ add_URLs_commit
    \/ add_URLs_error
    \/ add_URLs_raise
    \/ \E updateTime \in Times, vendor \in Vendors, filename \in Filenames :
       \E malicious_urls \in MarkLists(filename) :
          /\ last = NoCall
          /\ update_malicious_URLs_begin(updateTime, vendor, filename, malicious_urls)
    \/ update_malicious_URLs_batch
    \/ update_malicious_URLs_end
    \/ update_malicious_URLs_error
    \/ last = NoCall /\ add_IPs_begin("ipv4")
    \/ add_IPs_delete
    \/ add_IPs_insert
    \/ add_IPs_commit
    \/ add_IPs_error

SpecSteps == InitSteps /\ [][NextSteps]_vars

----------------------------------------------------------------------------
(* Properties of the URL stores *)

\* The dotted-quad text of an address below 256, written out independently
\* of inet_ntoa.
DottedQuad(addr) == "0.0.0." \o ToString(addr)

\* C1 (invariant U1): in every store file, every row's hash is the SHA-256
\* of its url followed by "/".
U1_HashOfUrl ==
    \A f \in Filenames : \A r \in db[f] : r.hash = sha256(r.url \o "/")

\* A written feed store holds a row that was listed at the latest time and
\* flagged by both vendors, next to a populated ipv4 store.
U1_Witness ==
    /\ focus \in FeedFilenames
    /\ \E r \in db[focus] :
          /\ r.lastListed = MaxTime
          /\ r.lastGoogleMalicious # NULL
          /\ r.lastYandexMalicious # NULL
    /\ Cardinality(db["ipv4"]) = ips_to_generate

\* C4 (upsert idempotence): add_URLs of the one-URL batch [u] at time t
\* leaves exactly one row for u, listed at t, with the right hash; applied
\* to a store where u is already listed at t it changes nothing; applied to
\* a store that holds u it changes only lastListed of u's row, and adds or
\* removes no row.
UpsertIdempotent ==
    [][\A t \in Times, u \in URLs, f \in FeedFilenames :
          (/\ last'.op = "add_URLs"
           /\ last'.updateTime = t
           /\ last'.urls = {u}
           /\ add_URLs(Iterable(<<{u}>>), t, f)) =>
             /\ Cardinality({r \in db'[f] : r.url = u}) = 1
             /\ \A r \in db'[f] :
                   r.url = u => r.lastListed = t /\ r.hash = sha256(u \o "/")
             /\ (\E r \in db[f] : r.url = u /\ r.lastListed = t) => db'[f] = db[f]
             /\ (\E r \in db[f] : r.url = u) =>
                   db'[f] = {IF r.url = u THEN [r EXCEPT !.lastListed = t] ELSE r :
                             r \in db[f]}]_vars

\* The last call was add_URLs at the latest time, and the store holds a row
\* listed then that a vendor had flagged, beside a second row.
UpsertIdempotentWitness ==
    /\ last.op = "add_URLs"
    /\ last.raised = ""
    /\ last.updateTime = MaxTime
    /\ focus \in FeedFilenames
    /\ Cardinality(db[focus]) = 2
    /\ \E r \in db[focus] :
          /\ r.url \in last.urls
          /\ r.lastListed = MaxTime
          /\ r.lastGoogleMalicious = 1

\* C5 as stated (invariant U2): no step lowers lastListed of a url.
ListedAtMonotone ==
    [][\A f \in FeedFilenames : \A r \in db[f] : \A q \in db'[f] :
          q.url = r.url => q.lastListed >= r.lastListed]_vars

\* C5 amended: lastListed of a url changes only in an add_URLs call whose
\* batches hold the url, and then becomes that call's updateTime whatever
\* the stored value was; so it does not decrease exactly when the call's
\* updateTime is not smaller than the stored value.
ListedAtLastWriter ==
    [][\A f \in FeedFilenames :
          /\ \A r \in db[f] : \A q \in db'[f] :
                q.url = r.url =>
                   \/ q.lastListed = r.lastListed
                   \/ /\ last'.op = "add_URLs"
                      /\ f = focus
                      /\ r.url \in last'.urls
          /\ (last'.op = "add_URLs" /\ f = focus) =>
                \A u \in last'.urls : \E q \in db'[f] :
                   q.url = u /\ q.lastListed = last'.updateTime]_vars

\* The last add_URLs call carried the earliest time and set lastListed of
\* a url that a vendor call of the latest time had flagged before: a later
\* call with a smaller time.
ListedAtLastWriterWitness ==
    /\ last.op = "add_URLs"
    /\ last.raised = ""
    /\ last.updateTime = 1
    /\ MaxTime > 1
    /\ focus \in FeedFilenames
    /\ \E r \in db[focus] :
          /\ r.url \in last.urls
          /\ r.lastListed = 1
          /\ r.lastGoogleMalicious = MaxTime

\* The urls of the rows of T whose flag in the given column is the largest
\* flag of that column; none when the column holds no flag.
LatestIn(T, column) ==
    {r.url : r \in {q \in T :
        /\ q[column] # NULL
        /\ \A x \in T : x[column] # NULL => x[column] <= q[column]}}

\* C9 (latest-flagged restriction): retrieve_malicious_URLs returns, united
\* over the given files, exactly the urls flagged at the file's latest
\* Google flag time or at its latest Yandex flag time; a file whose read
\* ended in a logged store error is the only one that gives none.
LatestFlaggedExact ==
    [][\A urls_filenames \in (SUBSET Filenames) \ {{}} :
          retrieve_malicious_URLs(urls_filenames) =>
             last'.value = UNION {LatestIn(db[f], "lastGoogleMalicious")
                                    \cup LatestIn(db[f], "lastYandexMalicious") :
                                  f \in urls_filenames \ last'.errors}]_vars

\* retrieve_malicious_URLs over both files, no read of it failing, returned
\* some url and left out a url that Google flagged earlier, in a file whose
\* Yandex column is all NULL, while the other file contributes a url too.
LatestFlaggedWitness ==
    /\ last.op = "retrieve_malicious_URLs"
    /\ last.urls_filenames = Filenames
    /\ last.errors = {}
    /\ \E f \in Filenames :
          /\ \E r \in db[f] : r.lastGoogleMalicious # NULL /\ r.url \notin last.value
          /\ \A r \in db[f] : r.lastYandexMalicious = NULL
          /\ \E r \in db[f] : r.url \in last.value
    /\ \E f \in Filenames : f # focus /\ \E r \in db[f] : r.url \in last.value

\* C10 (IPv4 full population, address space scaled to ips_to_generate): an
\* add_IPs call that no store error ends, begun on a store whose row count
\* is not ips_to_generate, leaves exactly one row per address, with its
\* dotted-quad text and that text's hash, and nothing else; begun on a store
\* that holds ips_to_generate rows it changes nothing.
IPv4FullPopulation ==
    (last.op = "add_IPs" /\ ~last.failed) =>
        /\ Cardinality(last.before) # ips_to_generate =>
              /\ Cardinality(db["ipv4"]) = ips_to_generate
              /\ \A addr \in 0..(ips_to_generate - 1) :
                    Cardinality({r \in db["ipv4"] : r.url = DottedQuad(addr)}) = 1
              /\ \A r \in db["ipv4"] : r.hash = sha256(r.url \o "/")
        /\ Cardinality(last.before) = ips_to_generate => db["ipv4"] = last.before

\* add_IPs found a store that was not fully populated (here: more rows than
\* addresses, one of them flagged) and left it fully populated.
IPv4FullPopulationWitness ==
    /\ last.op = "add_IPs"
    /\ ~last.failed
    /\ Cardinality(last.before) = ips_to_generate + 1
    /\ \E r \in last.before : r.lastGoogleMalicious # NULL
    /\ Cardinality(db["ipv4"]) = ips_to_generate
    /\ \A r \in db["ipv4"] : r.lastGoogleMalicious = NULL

----------------------------------------------------------------------------
(* Properties of the prefix store and of the prefix join *)

\* The first n bytes of a hash, written out independently of substring.
FirstBytes(hash, n) == [i \in 1..n |-> hash[i]]

\* The distinct prefix sizes stored under a vendor.
StoredSizes(P, vendor) == {Len(r.hashPrefix) : r \in {q \in P : q.vendor = vendor}}

\* A url of the file whose hash starts, at one of the vendor's stored sizes,
\* with a prefix stored under the vendor.
Matches(r, vendor) ==
    \E n \in StoredSizes(maliciousHashPrefixes, vendor) :
       \E q \in maliciousHashPrefixes :
          /\ q.vendor = vendor
          /\ q.hashPrefix = FirstBytes(sha256(r.url \o "/"), n)

\* C2 (join completeness): when identify_suspected_urls is given the prefix
\* sizes retrieve_vendor_prefixSizes returns for the vendor, every url of
\* the file whose hash starts, at one of those sizes, with a prefix stored
\* under the vendor is among the suspects.
JoinComplete ==
    (/\ last.op = "identify_suspected_urls"
     /\ last.prefixSizes \in DistinctPrefixSizes(maliciousHashPrefixes, last.vendor)) =>
        \A r \in db[last.filename] :
           Matches(r, last.vendor) => r.url \in Range(last.value)

\* The part of C2 that the code keeps: the suspects are complete when the
\* SELECT of no task raised a store error.
JoinCompleteUnlessError ==
    (/\ last.op = "identify_suspected_urls"
     /\ last.prefixSizes \in DistinctPrefixSizes(maliciousHashPrefixes, last.vendor)
     /\ \A task \in DOMAIN last.errors : last.errors[task] # "select") =>
        \A r \in db[last.filename] :
           Matches(r, last.vendor) => r.url \in Range(last.value)

\* The vendor stores prefixes of two sizes, no task logged an error, and the
\* suspects hold a url that matches only the 8-byte one, while a url of the
\* file is no suspect.
JoinCompleteUnlessErrorWitness ==
    /\ last.op = "identify_suspected_urls"
    /\ last.prefixSizes \in DistinctPrefixSizes(maliciousHashPrefixes, last.vendor)
    /\ \A task \in DOMAIN last.errors : last.errors[task] = ""
    /\ StoredSizes(maliciousHashPrefixes, last.vendor) = {4, 8}
    /\ "malware.test" \in Range(last.value)
    /\ \E r \in db[last.filename] : r.url \notin Range(last.value)

\* The urls have the first prefixSize bytes of SHA256(url + "/") stored as a
\* prefix under the vendor.
Sound(urls, prefixSize, vendor) ==
    \A i \in 1..Len(urls) :
       \E q \in maliciousHashPrefixes :
          /\ q.vendor = vendor
          /\ q.hashPrefix = FirstBytes(sha256(urls[i] \o "/"), prefixSize)

\* C3 (join soundness): every url get_matching_hashPrefix_urls returns for
\* (file, size, vendor) has the first size bytes of SHA256(url + "/") stored
\* as a prefix under that vendor, called on its own or as a task of
\* identify_suspected_urls, with or without a logged store error.
JoinSound ==
    /\ \A task \in Tasks :
          Sound(call.tasks[task].urls, call.prefixSizes[task], call.vendor)
    /\ last.op = "get_matching_hashPrefix_urls" =>
          Sound(last.value, last.prefixSizes[1], last.vendor)

\* get_matching_hashPrefix_urls returned a url for the vendor and left out a
\* url of the file whose hash prefix is stored under the other vendor only.
JoinSoundWitness ==
    /\ last.op = "get_matching_hashPrefix_urls"
    /\ last.value # <<>>
    /\ \E r \in db[last.filename] :
          /\ r.url \notin Range(last.value)
          /\ \E q \in maliciousHashPrefixes :
                /\ q.vendor # last.vendor
                /\ q.hashPrefix = FirstBytes(r.hash, last.prefixSizes[1])

\* C11 (no duplicate suspects): the list identify_suspected_urls returns for
\* the vendor's distinct prefix sizes holds each url at most once, and is
\* empty when there are no prefix sizes.
NoDuplicateSuspects ==
    (/\ last.op = "identify_suspected_urls"
     /\ last.prefixSizes \in DistinctPrefixSizes(maliciousHashPrefixes, last.vendor)) =>
        /\ \A i, j \in 1..Len(last.value) : last.value[i] = last.value[j] => i = j
        /\ last.prefixSizes = <<>> => last.value = <<>>

\* The part of C11 that the code keeps: with no prefix sizes the suspects are
\* empty, and a url is listed once for every given size at which its hash
\* starts with a prefix stored under the vendor and whose task's SELECT
\* raised no store error.
SuspectsOncePerSize ==
    last.op = "identify_suspected_urls" =>
        /\ last.prefixSizes = <<>> => last.value = <<>>
        /\ \A r \in db[last.filename] :
              Cardinality({i \in 1..Len(last.value) : last.value[i] = r.url})
                 = Cardinality({k \in 1..Len(last.prefixSizes) :
                      /\ last.errors[k] # "select"
                      /\ \E q \in maliciousHashPrefixes :
                            /\ q.vendor = last.vendor
                            /\ q.hashPrefix = FirstBytes(r.hash, last.prefixSizes[k])})

\* C6 (prefix replace atomicity): a retrieve_vendor_prefixSizes(v) that runs
\* while add_maliciousHashPrefixes replaces v's rows returns the sizes of
\* v's complete old rows or of its complete new rows.
ReplaceAtomic ==
    [][\A v \in Vendors :
          (Writing(v) /\ retrieve_vendor_prefixSizes(v)) =>
             \/ Range(last'.value) = {r.prefixSize : r \in txn[v].old}
             \/ Range(last'.value) = {r.prefixSize : r \in txn[v].new}]_vars

\* The part of C6 that the code keeps: a retrieve_vendor_prefixSizes(v)
\* whose SELECT raises no store error while v's rows are replaced returns
\* the sizes of v's complete old rows or of its complete new rows.
ReplaceIsolated ==
    [][\A v \in Vendors :
          (Writing(v) /\ retrieve_vendor_prefixSizes(v) /\ ~last'.failed) =>
             \/ Range(last'.value) = {r.prefixSize : r \in txn[v].old}
             \/ Range(last'.value) = {r.prefixSize : r \in txn[v].new}]_vars

\* retrieve_vendor_prefixSizes ran without error between the DELETE and the
\* end of the inserts of a replacement whose old and new rows differ in
\* their sizes, and some but not all new rows were written.
ReplaceIsolatedWitness ==
    /\ last.op = "retrieve_vendor_prefixSizes"
    /\ last.writing
    /\ ~last.failed
    /\ Writing(last.vendor)
    /\ LET t == txn[last.vendor]
           written == {r \in t.rows : r.vendor = last.vendor}
       IN /\ t.old # {}
          /\ written # {}
          /\ written # t.new
          /\ {r.prefixSize : r \in t.old} # {r.prefixSize : r \in t.new}
          /\ {r.prefixSize : r \in written} # {r.prefixSize : r \in t.old}
          /\ Range(last.value) = {r.prefixSize : r \in t.old}

----------------------------------------------------------------------------
(* Properties of the Lookup-API client *)

RECURSIVE SumLen(_)
SumLen(posts) ==
    IF posts = <<>> THEN 0 ELSE Len(Head(posts).data.threatEntries) + SumLen(Tail(posts))

\* The suspects a POST carries.
PostedUrls(post) ==
    {post.data.threatEntries[j].url[2] : j \in 1..Len(post.data.threatEntries)}

\* C7 (Lookup batch cap): no POST carries more than 500 (Google) or 200
\* (Yandex) threatEntries; once every batch is posted, the number of POSTs
\* is ceil(n / cap), their sizes sum to n and every suspect is in exactly
\* one of them.
LookupBatchCap ==
    lookup.pc = "posting" =>
        LET cap == IF lookup.vendor = "Google" THEN 500 ELSE 200
            n == Len(lookup.urls)
            posts == lookup.posts
        IN /\ \A i \in 1..Len(posts) : Len(posts[i].data.threatEntries) <= cap
           /\ \A i, j \in 1..Len(posts) : posts[i].task = posts[j].task => i = j
           /\ Unposted = {} =>
                 /\ Len(posts) * cap >= n
                 /\ (Len(posts) - 1) * cap < n \/ (n = 0 /\ Len(posts) = 0)
                 /\ SumLen(posts) = n
                 /\ UNION {PostedUrls(posts[i]) : i \in 1..Len(posts)} = Range(lookup.urls)

\* 1 200 Google suspects went out in 3 POSTs, the second batch first and
\* the batch of 200 before the first batch of 500.
LookupBatchCapWitness ==
    /\ lookup.pc = "posting"
    /\ Unposted = {}
    /\ lookup.vendor = "Google"
    /\ Len(lookup.urls) = 1200
    /\ Len(lookup.posts) = 3
    /\ <<lookup.posts[1].task, lookup.posts[2].task, lookup.posts[3].task>> = <<2, 3, 1>>
    /\ Len(lookup.posts[2].data.threatEntries) = 200

\* The urls the server reported in the batches that were answered.
ReportedUrls(results) ==
    {results[i].body.matches[j].threat.url[2] :
        i \in {k \in 1..Len(results) :
                  results[k].has_content /\ "matches" \in DOMAIN results[k].body},
        j \in 1..2}

\* C8 (lookup failure does not abort): get_malicious_urls returns without
\* raising, with the de-duplicated matches of the batches that were
\* answered, also when the POST of a batch failed and its response is the
\* empty Response.
LookupFailureTolerated ==
    last.op = "get_malicious_urls" =>
        /\ last.raised = ""
        /\ last.value = ReportedUrls(last.results)

----------------------------------------------------------------------------
(* Properties of the Update-API client *)

\* Textbook base64: groups of four alphabet characters, the last group
\* padded with at most two "=".
ValidBase64(text) ==
    /\ Len(text) % 4 = 0
    /\ \A i \in 1..Len(text) :
          \/ IsBase64Char(text[i])
          \/ /\ text[i] = "="
             /\ i >= Len(text) - 1
             /\ \A j \in i..Len(text) : text[j] = "="

\* The threatListUpdates answer has a rawHashes text that is not valid base64.
MalformedBase64(body) ==
    /\ "listUpdateResponses" \in DOMAIN body
    /\ \E i \in 1..Len(body.listUpdateResponses) :
          LET r == body.listUpdateResponses[i]
          IN /\ "additions" \in DOMAIN r
             /\ \E j \in 1..Len(r.additions) :
                   ~ValidBase64(r.additions[j].rawHashes.rawHashes)

\* A key the client reads is missing from the threatListUpdates answer.
MissingUpdatesKey(body) ==
    \/ "listUpdateResponses" \notin DOMAIN body
    \/ "minimumWaitDuration" \notin DOMAIN body
    \/ \E i \in 1..Len(body.listUpdateResponses) :
          "additions" \notin DOMAIN body.listUpdateResponses[i]

\* One of the failures of C12 happened in the call recorded in last.
UpdateFailure ==
    \/ last.get.answer # 200
    \/ "threatLists" \notin DOMAIN last.get.res.body
    \/ /\ last.post # NoCall
       /\ \/ last.post.answer # 200
          \/ MissingUpdatesKey(last.post.res.body)
          \/ MalformedBase64(last.post.res.body)

\* C12 (update failure yields the empty set): when the threatLists GET or
\* the threatListUpdates POST is answered non-2xx, or a 2xx body lacks
\* listUpdateResponses, threatLists, additions or minimumWaitDuration, or a
\* rawHashes text is not valid base64, get_malicious_url_hash_prefixes
\* returns the empty set and raises nothing.
UpdateFailureYieldsEmpty ==
    (last.op = "get_malicious_url_hash_prefixes" /\ UpdateFailure) =>
        /\ last.raised = ""
        /\ last.value = {}

----------------------------------------------------------------------------
(* Properties of the write operations, statement by statement *)

\* The row of T' that the row r of T has become.
SameRowBut(r, q, column) ==
    \A c \in DOMAIN r : c # column => q[c] = r[c]

\* C13 (mark_flagged effect and frame): a completed
\* update_malicious_URLs(updateTime, vendor, filename, S) leaves the file
\* with the rows it had, each row whose url is in S with the vendor's column
\* at updateTime and all its other columns as before, each other row as
\* before; no row is added for a url of S the file did not hold.  S has any
\* length around and above the chunk size.
MarkFlaggedEffect ==
    (last.op = "update_malicious_URLs" /\ ~last.failed) =>
        LET column == IF last.vendor = "Google" THEN "lastGoogleMalicious"
                      ELSE "lastYandexMalicious"
            InS(url) == \E i \in 1..Len(last.malicious_urls) : last.malicious_urls[i] = url
            marked(r) == IF InS(r.url) THEN [r EXCEPT ![column] = last.updateTime] ELSE r
        IN /\ db[last.filename] = {marked(r) : r \in last.before}
           /\ {r.url : r \in db[last.filename]} = {r.url : r \in last.before}
           /\ \A r \in last.before :
                 \E q \in db[last.filename] :
                    /\ q.url = r.url
                    /\ SameRowBut(r, q, column)
                    /\ q[column] = IF InS(r.url) THEN last.updateTime ELSE r[column]

\* update_malicious_URLs completed for a list of more than one chunk whose
\* last url, in the second chunk, is held by the file and whose first is
\* not; the held row was flagged by the other vendor before and is flagged
\* by both now, while another row of the file is as it was.
MarkFlaggedEffectWitness ==
    /\ last.op = "update_malicious_URLs"
    /\ ~last.failed
    /\ Len(last.malicious_urls) = batch_size + 1
    /\ last.vendor = "Yandex"
    /\ last.malicious_urls[1] \notin {r.url : r \in last.before}
    /\ \E r \in last.before, q \in db[last.filename] :
          /\ r.url = last.malicious_urls[batch_size + 1]
          /\ q.url = r.url
          /\ r.lastYandexMalicious # last.updateTime
          /\ q.lastYandexMalicious = last.updateTime
          /\ q.lastGoogleMalicious = r.lastGoogleMalicious
          /\ q.lastGoogleMalicious # NULL
    /\ \E r \in last.before : r \in db[last.filename]

\* C14 (failed store operations roll back): when add_URLs,
\* update_malicious_URLs or add_IPs ends in a store error, the file holds
\* exactly the rows it held when the operation began.
FailedOperationRollsBack ==
    (last.op \in {"add_URLs", "update_malicious_URLs", "add_IPs"} /\ last.failed) =>
        db[last.filename] = last.before

\* What the code keeps of C14: a failed add_URLs leaves the file as it was.
FailedAddURLsRollsBack ==
    (last.op = "add_URLs" /\ last.failed) => db[last.filename] = last.before

\* What the code keeps of C14: a failed add_maliciousHashPrefixes leaves the
\* committed prefix table as it was.
FailedReplaceRollsBack ==
    [][\A v \in Vendors :
          add_maliciousHashPrefixes_error(v) =>
             maliciousHashPrefixes' = maliciousHashPrefixes]_vars

====
